---- MODULE Spec2Model ----
(***************************************************************************)
(* CHAdeMO message layer (chademo-rs): the session aggregate `Chademo`,    *)
(* its decode dispatch, its mutators and the X1xx/X2xx record codecs.      *)
(*                                                                         *)
(* A frame is [id |-> [ext, raw], data |-> <<bytes>>]; bytes are 0..255.   *)
(* Rust's 0-based data[i] is written Byte(data, i).  An f32 field that is  *)
(* only ever loaded from a u16 or a literal is modelled by that integer.   *)
(***************************************************************************)
EXTENDS Integers, Sequences, FiniteSets, TLC

VARIABLES x100, x101, x102, x108, x109, x200, x208, x209, call, ret

vehicle == <<x100, x101, x102, x200>>
station == <<x108, x109, x208, x209>>
records == <<x100, x101, x102, x108, x109, x200, x208, x209>>
vars == <<x100, x101, x102, x108, x109, x200, x208, x209, call, ret>>

----------------------------------------------------------------------------
(* Bounds of the model *)

\* number of distinct well-formed 8-byte payloads offered to decode
NumPayloads == 1
\* amps magnitudes 0..MaxAmps offered to the dynamic limits of SpecStation
MaxAmps == 1

(* Program constants *)
U8Max == 255
DLC == 8
ID_X100 == 256
ID_X101 == 257
ID_X102 == 258
ID_X200 == 512
ID_X108 == 264
ID_X109 == 265
ID_X208 == 520
ID_X209 == 521

----------------------------------------------------------------------------
(* Byte helpers *)

Pow2(n) == IF n = 0 THEN 1 ELSE IF n = 1 THEN 2 ELSE IF n = 2 THEN 4
           ELSE IF n = 3 THEN 8 ELSE IF n = 4 THEN 16 ELSE IF n = 5 THEN 32
           ELSE IF n = 6 THEN 64 ELSE 128

Byte(data, i) == data[i + 1]

get_bit(byte, position) == ((byte \div Pow2(position)) % 2) # 0

u16_from_le_bytes(lo, hi) == lo + 256 * hi

----------------------------------------------------------------------------
(* interface.rs *)

raw_to_id(id) == [ext |-> FALSE, raw |-> id]

\* variant: the extended arm returns the raw value as well
standard_id_to_raw_accepting_extended(id) ==
    [ok |-> TRUE, val |-> id.raw, err |-> <<>>]

standard_id_to_raw(id) ==
    IF id.ext THEN [ok |-> FALSE, val |-> 0, err |-> <<"DecodeBadIdExt">>]
              ELSE [ok |-> TRUE, val |-> id.raw, err |-> <<>>]

----------------------------------------------------------------------------
(* Outcomes of a call *)

Returned == <<"return">>
OkUnit == <<"Ok">>
ErrOf(e) == <<"Err", e>>
DecodeBadId(id) == <<"DecodeBadId", id>>
DecodeBadIdExt == <<"DecodeBadIdExt">>
Panicked == <<"panic">>

\* a panic unwinds the caller: nothing runs after it
Running == ret # Panicked

----------------------------------------------------------------------------
(* frames.rs: vehicle records *)

\* the two assert!s of data_sanity; FALSE is a panic
data_sanity(frame, id, dlc) ==
    /\ frame.id = raw_to_id(id)
    /\ Len(frame.data) = dlc

X100_default ==
    [minimum_charge_current |-> 0, minimum_battery_voltage |-> 0,
     maximum_battery_voltage |-> 0, constant_of_charging_rate_indication |-> 0]

X100_from(frame) ==
    LET data == frame.data IN
    [minimum_battery_voltage |-> u16_from_le_bytes(Byte(data, 2), Byte(data, 3)),
     maximum_battery_voltage |-> u16_from_le_bytes(Byte(data, 4), Byte(data, 5)),
     constant_of_charging_rate_indication |-> Byte(data, 6),
     minimum_charge_current |-> Byte(data, 0)]

X101_default ==
    [max_charging_time_10s_bit |-> 0, max_charging_time_1min_bit |-> 0,
     estimated_charging_time |-> 0, rated_battery_capacity |-> 0]

X101_from(frame) ==
    LET data == frame.data IN
    [max_charging_time_10s_bit |-> Byte(data, 1),
     max_charging_time_1min_bit |-> Byte(data, 2),
     estimated_charging_time |-> Byte(data, 3),
     rated_battery_capacity |-> u16_from_le_bytes(Byte(data, 5), Byte(data, 6))]

X102Faults_default ==
    [fault_battery_voltage_deviation |-> FALSE,
     fault_high_battery_temperature |-> FALSE,
     fault_battery_current_deviation |-> FALSE,
     fault_battery_undervoltage |-> FALSE,
     fault_battery_overvoltage |-> FALSE]

X102Faults_from_u8(value) ==
    [fault_battery_overvoltage |-> get_bit(value, 4),
     fault_battery_undervoltage |-> get_bit(value, 3),
     fault_battery_current_deviation |-> get_bit(value, 2),
     fault_high_battery_temperature |-> get_bit(value, 1),
     fault_battery_voltage_deviation |-> get_bit(value, 0)]

\* variant: the overvoltage flag is left out of the OR
X102Faults_into_bool_without_overvoltage(val) ==
    \/ val.fault_battery_voltage_deviation
    \/ val.fault_high_battery_temperature
    \/ val.fault_battery_current_deviation
    \/ val.fault_battery_undervoltage

X102Faults_into_bool(val) ==
    \/ val.fault_battery_voltage_deviation
    \/ val.fault_high_battery_temperature
    \/ val.fault_battery_current_deviation
    \/ val.fault_battery_undervoltage
    \/ val.fault_battery_overvoltage

X102Status_default ==
    [status_discharge_compatible |-> FALSE,
     status_normal_stop_request |-> FALSE,
     status_vehicle |-> FALSE,
     status_charging_system |-> FALSE,
     status_vehicle_shifter_position |-> FALSE,
     status_vehicle_charging |-> FALSE]

X102Status_from_u8(val) ==
    [status_discharge_compatible |-> get_bit(val, 7),
     status_normal_stop_request |-> get_bit(val, 4),
     status_vehicle |-> get_bit(val, 3),
     status_charging_system |-> get_bit(val, 2),
     status_vehicle_shifter_position |-> get_bit(val, 1),
     status_vehicle_charging |-> get_bit(val, 0)]

X102_default ==
    [control_protocol_number_ev |-> 0, target_battery_voltage |-> 0,
     charging_current_request |-> 0, faults |-> X102Faults_default,
     status |-> X102Status_default, state_of_charge |-> 0]

X102_from(frame) ==
    LET data == frame.data IN
    [control_protocol_number_ev |-> Byte(data, 0),
     target_battery_voltage |-> u16_from_le_bytes(Byte(data, 1), Byte(data, 2)),
     charging_current_request |-> Byte(data, 3),
     faults |-> X102Faults_from_u8(Byte(data, 4)),
     status |-> X102Status_from_u8(Byte(data, 5)),
     state_of_charge |-> Byte(data, 6)]

X102_fault(self) == X102Faults_into_bool(self.faults)

\* variant: the flag is read without the negation
contactors_closed_when_flag_set(self) == self.status.status_vehicle

contactors_closed(self) == ~self.status.status_vehicle

\* variant: the contactors-open flag is required to be clear
can_close_contactors_flag_clear(self) ==
    /\ ~(\/ self.status.status_normal_stop_request
         \/ self.status.status_charging_system
         \/ self.status.status_vehicle_shifter_position)
    /\ ~self.status.status_vehicle
    /\ self.status.status_vehicle_charging
    /\ self.target_battery_voltage > 0

\* variant: the target voltage is not looked at
can_close_contactors_any_voltage(self) ==
    /\ ~(\/ self.status.status_normal_stop_request
         \/ self.status.status_charging_system
         \/ self.status.status_vehicle_shifter_position)
    /\ self.status.status_vehicle
    /\ self.status.status_vehicle_charging

can_close_contactors(self) ==
    /\ ~(\/ self.status.status_normal_stop_request
         \/ self.status.status_charging_system
         \/ self.status.status_vehicle_shifter_position)
    /\ self.status.status_vehicle
    /\ self.status.status_vehicle_charging
    /\ self.target_battery_voltage > 0

X200_default ==
    [maximum_discharge_current |-> 0, minimum_discharge_voltage |-> 0,
     minimum_battery_discharge_level |-> 0,
     max_remaining_capacity_for_charging |-> 0]

X200_from(frame) ==
    LET data == frame.data IN
    [maximum_discharge_current |-> 255 - Byte(data, 0),
     minimum_discharge_voltage |-> u16_from_le_bytes(Byte(data, 4), Byte(data, 5)),
     minimum_battery_discharge_level |-> 255 - Byte(data, 6),
     max_remaining_capacity_for_charging |-> Byte(data, 7)]

----------------------------------------------------------------------------
(* frames.rs: station records *)

bool_into_u8(b) == IF b THEN 1 ELSE 0

X108_new(available_output_current, avaible_output_voltage, welding_detection, threshold_voltage) ==
    [available_output_current |-> available_output_current,
     avaible_output_voltage |-> avaible_output_voltage,
     welding_detection |-> bool_into_u8(welding_detection),
     threshold_voltage |-> threshold_voltage]

X109Status_default ==
    [status_charger_stop_control |-> FALSE,
     fault_charging_system_malfunction |-> FALSE,
     fault_battery_incompatibility |-> FALSE,
     status_vehicle_connector_lock |-> FALSE,
     fault_station_malfunction |-> FALSE,
     status_station |-> FALSE]

X109_new(control_protocol_number_qc, discharge_compatitiblity) ==
    [control_protocol_number_qc |-> control_protocol_number_qc,
     discharge_compatitiblity |-> discharge_compatitiblity,
     remaining_charging_time_10s_bit |-> 255,
     remaining_charging_time_1min_bit |-> 255,
     status |-> [X109Status_default EXCEPT !.status_charger_stop_control = TRUE],
     output_voltage |-> 0,
     output_current |-> 0]

X208_new(discharge_current, input_voltage, input_current, lower_threshold_voltage) ==
    [discharge_current |-> discharge_current,
     input_voltage |-> input_voltage,
     input_current |-> input_current,
     lower_threshold_voltage |-> lower_threshold_voltage]

X208_set_input_current(self, amps) == [self EXCEPT !.input_current = amps]

X209_new(sequence, remaing_discharge_time) ==
    [sequence |-> sequence, remaing_discharge_time |-> remaing_discharge_time]

----------------------------------------------------------------------------
(* frames.rs and interface.rs: encoding *)

None == <<"None">>
Some(v) == <<"Some", v>>

\* ChademoCanFrame::new: a standard identifier and at most 8 data bytes
Frame_new(id, data) ==
    IF id.ext \/ Len(data) > 8 THEN None ELSE Some([id |-> id, data |-> data])

u16_to_le_bytes(v) == <<v % 256, v \div 256>>

\* `as u16` on a non-negative whole f32: saturating
f32_as_u16(v) == IF v > 65535 THEN 65535 ELSE v

X102Status_into_u8(val) ==
    bool_into_u8(val.status_discharge_compatible) * 128
    + bool_into_u8(val.status_normal_stop_request) * 16
    + bool_into_u8(val.status_vehicle) * 8
    + bool_into_u8(val.status_charging_system) * 4
    + bool_into_u8(val.status_vehicle_shifter_position) * 2
    + bool_into_u8(val.status_vehicle_charging)

\* variant: stop-control and charging-system-malfunction trade their bits
X109Status_into_u8_bits_swapped(val) ==
    bool_into_u8(val.status_charger_stop_control) * 16
    + bool_into_u8(val.fault_charging_system_malfunction) * 32
    + bool_into_u8(val.fault_battery_incompatibility) * 8
    + bool_into_u8(val.status_vehicle_connector_lock) * 4
    + bool_into_u8(val.fault_station_malfunction) * 2
    + bool_into_u8(val.status_station)

X109Status_into_u8(val) ==
    bool_into_u8(val.status_charger_stop_control) * 32
    + bool_into_u8(val.fault_charging_system_malfunction) * 16
    + bool_into_u8(val.fault_battery_incompatibility) * 8
    + bool_into_u8(val.status_vehicle_connector_lock) * 4
    + bool_into_u8(val.fault_station_malfunction) * 2
    + bool_into_u8(val.status_station)

X109Status_from_u8(value) ==
    [status_charger_stop_control |-> get_bit(value, 5),
     fault_charging_system_malfunction |-> get_bit(value, 4),
     fault_battery_incompatibility |-> get_bit(value, 3),
     status_vehicle_connector_lock |-> get_bit(value, 2),
     fault_station_malfunction |-> get_bit(value, 1),
     status_station |-> get_bit(value, 0)]

X108_to_can(self) ==
    LET aov == u16_to_le_bytes(self.avaible_output_voltage)
        tv == u16_to_le_bytes(self.threshold_voltage)
    IN  Frame_new(raw_to_id(ID_X108),
                  <<self.welding_detection, aov[1], aov[2],
                    self.available_output_current, tv[1], tv[2], 0, 0>>)

X109_to_can(self) ==
    LET voltage_bytes == u16_to_le_bytes(f32_as_u16(self.output_voltage))
    IN  Frame_new(raw_to_id(ID_X109),
                  <<self.control_protocol_number_qc,
                    voltage_bytes[1], voltage_bytes[2],
                    self.output_current,
                    bool_into_u8(self.discharge_compatitiblity),
                    X109Status_into_u8(self.status),
                    self.remaining_charging_time_10s_bit,
                    self.remaining_charging_time_1min_bit>>)

X208_to_can(self) ==
    LET iv == u16_to_le_bytes(self.input_voltage)
        ltv == u16_to_le_bytes(self.lower_threshold_voltage)
    IN  Frame_new(raw_to_id(ID_X208),
                  <<255 - self.discharge_current, iv[1], iv[2],
                    255 - self.input_current, 0, 0, ltv[1], ltv[2]>>)

\* variant: the two current bytes are read without the inversion
X208_from_plain_currents(frame) ==
    LET data == frame.data IN
    [discharge_current |-> Byte(data, 0),
     input_voltage |-> u16_from_le_bytes(Byte(data, 1), Byte(data, 2)),
     input_current |-> Byte(data, 3),
     lower_threshold_voltage |-> u16_from_le_bytes(Byte(data, 6), Byte(data, 7))]

X208_from(frame) ==
    LET data == frame.data IN
    [discharge_current |-> 255 - Byte(data, 0),
     input_voltage |-> u16_from_le_bytes(Byte(data, 1), Byte(data, 2)),
     input_current |-> 255 - Byte(data, 3),
     lower_threshold_voltage |-> u16_from_le_bytes(Byte(data, 6), Byte(data, 7))]

X209_to_can(self) ==
    LET rdt == u16_to_le_bytes(self.remaing_discharge_time)
    IN  Frame_new(raw_to_id(ID_X209),
                  <<self.sequence, rdt[1], rdt[2], 0, 0, 0, 0, 0>>)

----------------------------------------------------------------------------
(* lib.rs: the aggregate *)

\* variant: the discharge-input limit is seeded with 0, not with max_amps
Chademo_new_zero_input_current(max_amps) ==
    [x100 |-> X100_default,
     x101 |-> X101_default,
     x102 |-> X102_default,
     x200 |-> X200_default,
     x109 |-> X109_new(2, TRUE),
     x108 |-> X108_new(max_amps, 500, TRUE, 435),
     x208 |-> X208_new(0, 500, 0, 250),
     x209 |-> X209_new(2, 0)]

Chademo_new(max_amps) ==
    [x100 |-> X100_default,
     x101 |-> X101_default,
     x102 |-> X102_default,
     x200 |-> X200_default,
     x109 |-> X109_new(2, TRUE),
     x108 |-> X108_new(max_amps, 500, TRUE, 435),
     x208 |-> X208_new(0, 500, max_amps, 250),
     x209 |-> X209_new(2, 0)]

\* variant: the catch-all arm returns Ok(()) for an unknown identifier
decode_outcome_ok_on_unknown(frame) ==
    LET r == standard_id_to_raw(frame.id) IN
    IF ~r.ok THEN ErrOf(r.err)
    ELSE IF r.val \in {ID_X100, ID_X101, ID_X102, ID_X200}
         THEN IF data_sanity(frame, r.val, DLC) THEN OkUnit ELSE Panicked
         ELSE OkUnit

\* the outcome of Chademo::decode
decode_outcome(frame) ==
    LET r == standard_id_to_raw(frame.id) IN
    IF ~r.ok THEN ErrOf(r.err)
    ELSE IF r.val \in {ID_X100, ID_X101, ID_X102, ID_X200}
         THEN IF data_sanity(frame, r.val, DLC) THEN OkUnit ELSE Panicked
         ELSE ErrOf(DecodeBadId(r.val))

\* variant: every vehicle identifier runs every arm
decode_arm_any_vehicle_id(frame, id, old, new) ==
    LET r == standard_id_to_raw(frame.id) IN
    IF r.ok /\ r.val \in {ID_X100, ID_X101, ID_X102, ID_X200}
            /\ data_sanity(frame, r.val, DLC)
    THEN new ELSE old

\* the record the match arm for `id` assigns; `old` when another arm runs
decode_arm(frame, id, old, new) ==
    LET r == standard_id_to_raw(frame.id) IN
    IF r.ok /\ r.val = id /\ data_sanity(frame, id, DLC) THEN new ELSE old

Decode(frame) ==
    /\ Running
    /\ call' = <<"decode", frame>>
    /\ ret' = decode_outcome(frame)
    /\ x100' = decode_arm(frame, ID_X100, x100, X100_from(frame))
    /\ x101' = decode_arm(frame, ID_X101, x101, X101_from(frame))
    /\ x102' = decode_arm(frame, ID_X102, x102, X102_from(frame))
    /\ x200' = decode_arm(frame, ID_X200, x200, X200_from(frame))
    /\ UNCHANGED station

\* variant: the stop request also zeroes the commanded current
request_stop_charge_zeroing_current(self) ==
    [self EXCEPT !.status.status_charger_stop_control = TRUE,
                 !.output_current = 0]

request_stop_charge(self) ==
    [self EXCEPT !.status.status_charger_stop_control = TRUE]

RequestStopCharge ==
    /\ Running
    /\ call' = <<"request_stop_charge">>
    /\ ret' = Returned
    /\ x109' = request_stop_charge(x109)
    /\ UNCHANGED <<vehicle, x108, x208, x209>>

\* variant: the two remaining-time values are exchanged
charge_start_times_swapped(self) ==
    [self EXCEPT !.status.status_charger_stop_control = FALSE,
                 !.status.status_station = TRUE,
                 !.remaining_charging_time_10s_bit = 60,
                 !.remaining_charging_time_1min_bit = 255]

charge_start(self) ==
    [self EXCEPT !.status.status_charger_stop_control = FALSE,
                 !.status.status_station = TRUE,
                 !.remaining_charging_time_10s_bit = 255,
                 !.remaining_charging_time_1min_bit = 60]

ChargeStart ==
    /\ Running
    /\ call' = <<"charge_start">>
    /\ ret' = Returned
    /\ x109' = charge_start(x109)
    /\ UNCHANGED <<vehicle, x108, x208, x209>>

\* variant: the station fault bits are kept (latched) across the stop
charge_stop_keeping_faults(self) ==
    [self EXCEPT !.output_voltage = 0,
                 !.output_current = 0,
                 !.remaining_charging_time_10s_bit = 0,
                 !.remaining_charging_time_1min_bit = 0]

charge_stop(self) ==
    [self EXCEPT !.output_voltage = 0,
                 !.output_current = 0,
                 !.remaining_charging_time_10s_bit = 0,
                 !.remaining_charging_time_1min_bit = 0,
                 !.status.fault_battery_incompatibility = FALSE,
                 !.status.fault_charging_system_malfunction = FALSE,
                 !.status.fault_station_malfunction = FALSE]

\* variant: the stop also resets the vehicle's 0x102 record
ChargeStop_resetting_x102 ==
    /\ Running
    /\ call' = <<"charge_stop">>
    /\ ret' = Returned
    /\ x109' = charge_stop(x109)
    /\ x102' = X102_default
    /\ UNCHANGED <<x100, x101, x200, x108, x208, x209>>

ChargeStop ==
    /\ Running
    /\ call' = <<"charge_stop">>
    /\ ret' = Returned
    /\ x109' = charge_stop(x109)
    /\ UNCHANGED <<vehicle, x108, x208, x209>>

\* variant: unlocking the connector also clears stop-control
plug_lock_releasing_stop_control(self, state) ==
    [self EXCEPT !.status.status_vehicle_connector_lock = state,
                 !.status.status_charger_stop_control =
                     state /\ self.status.status_charger_stop_control]

plug_lock(self, state) ==
    [self EXCEPT !.status.status_vehicle_connector_lock = state]

PlugLock(state) ==
    /\ Running
    /\ call' = <<"plug_lock", state>>
    /\ ret' = Returned
    /\ x109' = plug_lock(x109, state)
    /\ UNCHANGED <<vehicle, x108, x208, x209>>

\* `as u8` on a non-negative whole f32: saturating
f32_as_u8(mag) == IF mag > U8Max THEN U8Max ELSE mag

set_max_charge_amps(self, amps) == [self EXCEPT !.output_current = amps]

set_max_discharge_amps(self, amps) == X208_set_input_current(self, amps)

\* amps is an f32 given as sign bit and whole magnitude
UpdateDynamicChargeLimits(amps) ==
    /\ Running
    /\ call' = <<"update_dynamic_charge_limits", amps>>
    /\ ret' = Returned
    /\ IF amps.neg
       THEN /\ x208' = set_max_discharge_amps(x208, f32_as_u8(amps.mag))
            /\ UNCHANGED x109
       ELSE /\ x109' = set_max_charge_amps(x109, f32_as_u8(amps.mag))
            /\ UNCHANGED x208
    /\ UNCHANGED <<vehicle, x108, x209>>

charging_stop_control_set(self) ==
    [self EXCEPT !.status.status_charger_stop_control = FALSE]

ChargingStopControlSet ==
    /\ Running
    /\ call' = <<"charging_stop_control_set">>
    /\ ret' = Returned
    /\ x109' = charging_stop_control_set(x109)
    /\ UNCHANGED <<vehicle, x108, x208, x209>>

charging_stop_control_release(self) ==
    [self EXCEPT !.status.status_charger_stop_control = TRUE]

ChargingStopControlRelease ==
    /\ Running
    /\ call' = <<"charging_stop_control_release">>
    /\ ret' = Returned
    /\ x109' = charging_stop_control_release(x109)
    /\ UNCHANGED <<vehicle, x108, x208, x209>>

\* read accessors of the aggregate
fault == X102_fault(x102)
status_vehicle_ok == ~x102.status.status_vehicle

\* variant: the 0x208 entry is emitted before the 0x109 entry
tx_frames_x208_first == <<X108_to_can(x108), X208_to_can(x208), X109_to_can(x109), X209_to_can(x209)>>

tx_frames == <<X108_to_can(x108), X109_to_can(x109), X208_to_can(x208), X209_to_can(x209)>>

TxFrames ==
    /\ Running
    /\ call' = <<"tx_frames">>
    /\ ret' = <<"frames">> \o tx_frames
    /\ UNCHANGED records

----------------------------------------------------------------------------
(* Inputs *)

VehicleIds == {ID_X100, ID_X101, ID_X102, ID_X200}
StationIds == {ID_X108, ID_X109, ID_X208, ID_X209}

\* a well-formed payload; byte 5 alternates the test vectors' 0xC9 and 0xC1
Payload(k) == <<2, 154, 1, k % 256, 0, 193 + 8 * (k % 2), 86, k % 256>>

ShortPayload == SubSeq(Payload(1), 1, DLC - 1)

GoodFrames ==
    {[id |-> raw_to_id(i), data |-> Payload(k)] : i \in VehicleIds, k \in 1..NumPayloads}

ShortFrames ==
    {[id |-> raw_to_id(i), data |-> ShortPayload] : i \in VehicleIds}

BadIdFrames ==
    {[id |-> raw_to_id(i), data |-> Payload(1)] : i \in StationIds}
    \cup {[id |-> raw_to_id(2047), data |-> ShortPayload]}

ExtFrames ==
    {[id |-> [ext |-> TRUE, raw |-> ID_X102], data |-> Payload(1)],
     [id |-> [ext |-> TRUE, raw |-> 417001744], data |-> ShortPayload]}

Frames == GoodFrames \cup ShortFrames \cup BadIdFrames \cup ExtFrames

\* +0.0, -0.0 and one amp above the ceiling, in both directions
AmpsInputs == {[neg |-> n, mag |-> m] : n \in BOOLEAN, m \in {0, 16}}

\* the ceiling of the tests (lib.rs soc_test)
MaxAmpsInputs == {15}

----------------------------------------------------------------------------
(* The session: construction, then any interleaving of calls *)

InitWith(max_amps) ==
    LET c == Chademo_new(max_amps) IN
    /\ x100 = c.x100 /\ x101 = c.x101 /\ x102 = c.x102 /\ x200 = c.x200
    /\ x108 = c.x108 /\ x109 = c.x109 /\ x208 = c.x208 /\ x209 = c.x209
    /\ call = <<"new", max_amps>>
    /\ ret = Returned

Init == \E max_amps \in MaxAmpsInputs : InitWith(max_amps)

Next ==
    \/ \E frame \in Frames : Decode(frame)
    \/ RequestStopCharge
    \/ ChargeStart
    \/ ChargeStop
    \/ \E state \in BOOLEAN : PlugLock(state)
    \/ \E amps \in AmpsInputs : UpdateDynamicChargeLimits(amps)
    \/ ChargingStopControlSet
    \/ ChargingStopControlRelease
    \/ TxFrames

Spec == Init /\ [][Next]_vars

----------------------------------------------------------------------------
(* The station side alone: every ceiling a u8 can give, mutators only *)

StationAmpsInputs == {[neg |-> n, mag |-> m] : n \in BOOLEAN, m \in 0..MaxAmps}

InitStation == \E max_amps \in 0..U8Max : InitWith(max_amps)

NextStation ==
    \/ RequestStopCharge
    \/ ChargeStart
    \/ ChargeStop
    \/ \E state \in BOOLEAN : PlugLock(state)
    \/ \E amps \in StationAmpsInputs : UpdateDynamicChargeLimits(amps)
    \/ ChargingStopControlSet
    \/ ChargingStopControlRelease

SpecStation == InitStation /\ [][NextStation]_vars

----------------------------------------------------------------------------
(* The 0x102 codec alone: every fault byte and every status byte *)

X102Payload(volts, faults, status) ==
    <<2, volts % 256, volts \div 256, 0, faults, status, 86, 0>>

X102Frames ==
    {[id |-> raw_to_id(ID_X102), data |-> X102Payload(410, f, 193)] : f \in 0..U8Max}
    \cup {[id |-> raw_to_id(ID_X102), data |-> X102Payload(v, 0, s)] :
             v \in {0, 410}, s \in 0..U8Max}
    \cup {[id |-> raw_to_id(ID_X102), data |-> X102Payload(v, 0, 201)] : v \in {1, 256}}

NextX102 == \E frame \in X102Frames : Decode(frame)

SpecX102 == Init /\ [][NextX102]_vars

----------------------------------------------------------------------------
(* The station record after the caller has written its pub fields: any    *)
(* status bits, a non-zero output voltage; then mutators and tx_frames     *)

X109FieldValues ==
    {[X109_new(2, TRUE) EXCEPT !.status = X109Status_from_u8(b),
                               !.output_voltage = 400,
                               !.output_current = c] : b \in 0..63, c \in {0, 16}}

InitFields ==
    \E v \in X109FieldValues :
        LET c == Chademo_new(15) IN
        /\ x100 = c.x100 /\ x101 = c.x101 /\ x102 = c.x102 /\ x200 = c.x200
        /\ x108 = c.x108 /\ x109 = v /\ x208 = c.x208 /\ x209 = c.x209
        /\ call = <<"new", 15>>
        /\ ret = Returned

NextFields ==
    \/ RequestStopCharge
    \/ ChargeStart
    \/ ChargeStop
    \/ \E state \in BOOLEAN : PlugLock(state)
    \/ \E amps \in StationAmpsInputs : UpdateDynamicChargeLimits(amps)
    \/ ChargingStopControlSet
    \/ ChargingStopControlRelease
    \/ TxFrames

SpecFields == InitFields /\ [][NextFields]_vars

----------------------------------------------------------------------------
(* The 0x208 codec alone: X208::new with any currents, to_can, then From   *)
(* on the frame to_can returned                                            *)

U16Samples == {0, 1, 250, 255, 256, 500, 65535}

X208Values ==
    {X208_new(dc, 500, ic, 250) : dc \in 0..U8Max, ic \in {0, 16, U8Max}}
    \cup {X208_new(dc, 500, ic, 250) : dc \in {0, 1, U8Max}, ic \in 0..U8Max}
    \cup {X208_new(1, iv, 16, ltv) : iv \in U16Samples, ltv \in U16Samples}

InitX208 ==
    \E v \in X208Values :
        LET c == Chademo_new(15) IN
        /\ x100 = c.x100 /\ x101 = c.x101 /\ x102 = c.x102 /\ x200 = c.x200
        /\ x108 = c.x108 /\ x109 = c.x109 /\ x209 = c.x209
        /\ x208 = v
        /\ call = <<"X208::new", v>>
        /\ ret = Returned

X208ToCan ==
    /\ Running
    /\ call' = <<"X208::to_can">>
    /\ ret' = X208_to_can(x208)
    /\ UNCHANGED records

\* From<&T> applied to the frame the last to_can returned; the result is a
\* new value, x208 itself is not assigned
X208From ==
    /\ Running
    /\ ret[1] = "Some"
    /\ call' = <<"X208::from", ret[2]>>
    /\ ret' = IF data_sanity(ret[2], ID_X208, DLC)
              THEN <<"X208", X208_from(ret[2])>>
              ELSE Panicked
    /\ UNCHANGED records

NextX208 == X208ToCan \/ X208From

SpecX208 == InitX208 /\ [][NextX208]_vars

----------------------------------------------------------------------------
(* The two status bit-groups alone: a value is built from any byte or from *)
(* any flags (the fields are pub), and the value last returned is turned   *)
(* back into a byte                                                        *)

X102StatusValues ==
    [status_discharge_compatible : BOOLEAN, status_normal_stop_request : BOOLEAN,
     status_vehicle : BOOLEAN, status_charging_system : BOOLEAN,
     status_vehicle_shifter_position : BOOLEAN, status_vehicle_charging : BOOLEAN]

X109StatusValues ==
    [status_charger_stop_control : BOOLEAN, fault_charging_system_malfunction : BOOLEAN,
     fault_battery_incompatibility : BOOLEAN, status_vehicle_connector_lock : BOOLEAN,
     fault_station_malfunction : BOOLEAN, status_station : BOOLEAN]

X102StatusFromU8(val) ==
    /\ Running
    /\ call' = <<"X102Status::from", val>>
    /\ ret' = <<"X102Status", X102Status_from_u8(val)>>
    /\ UNCHANGED records

X102StatusLiteral(s) ==
    /\ Running
    /\ call' = <<"X102Status {..}", s>>
    /\ ret' = <<"X102Status", s>>
    /\ UNCHANGED records

X102StatusIntoU8 ==
    /\ Running
    /\ ret[1] = "X102Status"
    /\ call' = <<"u8::from(X102Status)", ret[2]>>
    /\ ret' = <<"u8", X102Status_into_u8(ret[2])>>
    /\ UNCHANGED records

X109StatusFromU8(value) ==
    /\ Running
    /\ call' = <<"X109Status::from", value>>
    /\ ret' = <<"X109Status", X109Status_from_u8(value)>>
    /\ UNCHANGED records

X109StatusLiteral(s) ==
    /\ Running
    /\ call' = <<"X109Status {..}", s>>
    /\ ret' = <<"X109Status", s>>
    /\ UNCHANGED records

X109StatusIntoU8 ==
    /\ Running
    /\ ret[1] = "X109Status"
    /\ call' = <<"u8::from(X109Status)", ret[2]>>
    /\ ret' = <<"u8", X109Status_into_u8(ret[2])>>
    /\ UNCHANGED records

NextStatus ==
    \/ \E val \in 0..U8Max : X102StatusFromU8(val)
    \/ \E s \in X102StatusValues : X102StatusLiteral(s)
    \/ X102StatusIntoU8
    \/ \E value \in 0..U8Max : X109StatusFromU8(value)
    \/ \E s \in X109StatusValues : X109StatusLiteral(s)
    \/ X109StatusIntoU8

SpecStatus == Init /\ [][NextStatus]_vars

----------------------------------------------------------------------------
(* Properties *)

\* bit n of byte b, read off the byte's value
BitOf(b, n) == (b \div (2 ^ n)) % 2 = 1

IsDecode(c) == c[1] = "decode"

Mutators ==
    {"request_stop_charge", "charge_start", "charge_stop", "plug_lock",
     "update_dynamic_charge_limits", "charging_stop_control_set",
     "charging_stop_control_release"}

\* the 0x102 frame the current x102 record was decoded from (SpecX102)
DecodedX102 == IsDecode(call) /\ ret = OkUnit /\ call[2].id = [ext |-> FALSE, raw |-> 258]

\* C1 (as stated): can_close_contactors holds exactly when status bits 4, 2, 1
\* are clear, bit 3 (vehicle contactors open) is CLEAR, bit 0 is set and the
\* target battery voltage is above zero.
C1_AsStated ==
    can_close_contactors(x102) <=>
        /\ DecodedX102
        /\ LET b == call[2].data[6]
               v == call[2].data[2] + 256 * call[2].data[3]
           IN  /\ ~BitOf(b, 4) /\ ~BitOf(b, 2) /\ ~BitOf(b, 1)
               /\ ~BitOf(b, 3)
               /\ BitOf(b, 0)
               /\ v > 0

\* C1 (amended): can_close_contactors holds exactly when status bits 4, 2, 1
\* are clear, bit 3 (vehicle contactors open) is SET, bit 0 is set and the
\* target battery voltage is above zero; it is false before any 0x102 frame.
C1_CanCloseContactors ==
    can_close_contactors(x102) <=>
        /\ DecodedX102
        /\ LET b == call[2].data[6]
               v == call[2].data[2] + 256 * call[2].data[3]
           IN  /\ ~BitOf(b, 4) /\ ~BitOf(b, 2) /\ ~BitOf(b, 1)
               /\ BitOf(b, 3)
               /\ BitOf(b, 0)
               /\ v > 0

C1_Witness ==
    /\ DecodedX102
    /\ call[2].data[6] = 201
    /\ can_close_contactors(x102)

\* C2: decode of a frame with a standard identifier other than 0x100, 0x101,
\* 0x102, 0x200 returns Err(DecodeBadId(that identifier)) and changes none of
\* the eight records.
C2_UnknownIdRejected ==
    [][(/\ IsDecode(call')
        /\ ~call'[2].id.ext
        /\ call'[2].id.raw \notin {256, 257, 258, 512})
       => /\ ret' = <<"Err", <<"DecodeBadId", call'[2].id.raw>>>>
          /\ UNCHANGED records]_vars

C2_Witness ==
    /\ IsDecode(call)
    /\ call[2].id = [ext |-> FALSE, raw |-> 265]
    /\ ret = <<"Err", <<"DecodeBadId", 265>>>>
    /\ x100.minimum_charge_current # 0
    /\ x109.status.status_station

\* C3: decode of a frame with an extended identifier returns
\* Err(DecodeBadIdExt) and changes none of the eight records, whatever the
\* identifier's value and the payload.
C3_ExtendedIdRejected ==
    [][(IsDecode(call') /\ call'[2].id.ext)
       => /\ ret' = <<"Err", <<"DecodeBadIdExt">>>>
          /\ UNCHANGED records]_vars

C3_Witness ==
    /\ IsDecode(call)
    /\ call[2].id = [ext |-> TRUE, raw |-> 258]
    /\ Len(call[2].data) = 8
    /\ ret = <<"Err", <<"DecodeBadIdExt">>>>
    /\ x102.state_of_charge # 0

\* C4: decode of an 8-byte frame with identifier 0x100, 0x101, 0x102 or 0x200
\* returns Ok, replaces the one vehicle record of that identifier by the decoded
\* value, and leaves the other three vehicle records and the four station
\* records as they were.
C4_DecodeUpdatesOneRecord ==
    [][(/\ IsDecode(call')
        /\ ~call'[2].id.ext
        /\ call'[2].id.raw \in {256, 257, 258, 512}
        /\ Len(call'[2].data) = 8)
       => LET f == call'[2]
              id == f.id.raw
          IN  /\ ret' = <<"Ok">>
              /\ id = 256 => x100' = X100_from(f) /\ UNCHANGED <<x101, x102, x200>>
              /\ id = 257 => x101' = X101_from(f) /\ UNCHANGED <<x100, x102, x200>>
              /\ id = 258 => /\ x102' = X102_from(f)
                              /\ x102'.state_of_charge = f.data[7]
                              /\ x102'.charging_current_request = f.data[4]
                              /\ UNCHANGED <<x100, x101, x200>>
              /\ id = 512 => /\ x200' = X200_from(f)
                              /\ x200'.max_remaining_capacity_for_charging = f.data[8]
                              /\ UNCHANGED <<x100, x101, x102>>
              /\ UNCHANGED <<x108, x109, x208, x209>>]_vars

C4_Witness ==
    /\ IsDecode(call)
    /\ ret = <<"Ok">>
    /\ call[2].id = [ext |-> FALSE, raw |-> 512]
    /\ x200 = X200_from(call[2])
    /\ x100.minimum_charge_current # 0
    /\ x102.state_of_charge = 0

\* C5: a vehicle record changes only in a decode step that returns Ok, and a
\* station record changes only in a mutator step; no mutator alters a vehicle
\* record and no decode call alters a station record.
C5_RecordOwnership ==
    [][/\ vehicle' # vehicle => IsDecode(call') /\ ret' = <<"Ok">>
       /\ station' # station => call'[1] \in Mutators
       /\ call'[1] \in Mutators => vehicle' = vehicle
       /\ IsDecode(call') => station' = station]_vars

C5_Witness ==
    /\ IsDecode(call)
    /\ call[2].id = [ext |-> FALSE, raw |-> 264]
    /\ x109.output_current # 0
    /\ x208.input_current # x108.available_output_current
    /\ x102.state_of_charge # 0

\* C6: after a 0x102 frame is decoded, fault() is true exactly when one of
\* bits 0..4 of the frame's byte 4 is set; bits 5..7 do not count, and it is
\* false before any 0x102 frame.
C6_FaultOrLaw ==
    fault <=> (DecodedX102 /\ \E n \in 0..4 : BitOf(call[2].data[5], n))

C6_Witness ==
    /\ DecodedX102
    /\ call[2].data[5] = 240
    /\ fault

\* C7 (as stated): decode of a frame with identifier 0x100, 0x101, 0x102 or
\* 0x200 whose payload is not 8 bytes long returns an error to the caller.
C7_AsStated ==
    (/\ IsDecode(call)
     /\ ~call[2].id.ext
     /\ call[2].id.raw \in {256, 257, 258, 512}
     /\ Len(call[2].data) # 8)
    => ret[1] = "Err"

\* C8 (as stated): after Chademo::new and any mutator calls, with no frame
\* decoded, the aggregate reports the vehicle contactors as open.
C8_AsStated ==
    ~contactors_closed(x102) /\ ~status_vehicle_ok

\* C9: Chademo::new(max_amps) gives stop-control asserted, station-active and
\* the three station fault bits clear, output current and voltage 0, 0x109
\* protocol number 2, 0x108 = (max_amps, 500, 1, 435), 0x208 discharge current 0
\* with input-current limit max_amps, and zeroed vehicle records.
C9_Construction ==
    call[1] = "new" =>
        LET max_amps == call[2] IN
        /\ x109.status = [status_charger_stop_control |-> TRUE,
                          fault_charging_system_malfunction |-> FALSE,
                          fault_battery_incompatibility |-> FALSE,
                          status_vehicle_connector_lock |-> FALSE,
                          fault_station_malfunction |-> FALSE,
                          status_station |-> FALSE]
        /\ x109.output_current = 0
        /\ x109.output_voltage = 0
        /\ x109.control_protocol_number_qc = 2
        /\ x108 = [available_output_current |-> max_amps,
                   avaible_output_voltage |-> 500,
                   welding_detection |-> 1,
                   threshold_voltage |-> 435]
        /\ x208.discharge_current = 0
        /\ x208.input_current = max_amps
        /\ \A k \in DOMAIN x100 : x100[k] = 0
        /\ \A k \in DOMAIN x101 : x101[k] = 0
        /\ \A k \in DOMAIN x200 : x200[k] = 0
        /\ x102.control_protocol_number_ev = 0
        /\ x102.target_battery_voltage = 0
        /\ x102.charging_current_request = 0
        /\ x102.state_of_charge = 0
        /\ \A k \in DOMAIN x102.faults : x102.faults[k] = FALSE
        /\ \A k \in DOMAIN x102.status : x102.status[k] = FALSE

C9_Witness ==
    /\ call = <<"new", 255>>
    /\ x108.available_output_current = 255
    /\ x208.input_current = 255

\* what charge_start leaves alone
ChargeStartFrame ==
    /\ x109'.control_protocol_number_qc = x109.control_protocol_number_qc
    /\ x109'.discharge_compatitiblity = x109.discharge_compatitiblity
    /\ x109'.output_voltage = x109.output_voltage
    /\ x109'.output_current = x109.output_current
    /\ x109'.status.fault_charging_system_malfunction
         = x109.status.fault_charging_system_malfunction
    /\ x109'.status.fault_battery_incompatibility
         = x109.status.fault_battery_incompatibility
    /\ x109'.status.fault_station_malfunction = x109.status.fault_station_malfunction
    /\ x109'.status.status_vehicle_connector_lock
         = x109.status.status_vehicle_connector_lock
    /\ UNCHANGED <<x100, x101, x102, x200, x108, x208, x209>>

\* C10 (as stated): after charge_start stop-control is clear, station-active
\* is set, the 1-minute remaining-time field is 255, and nothing else changed
\* (the 10-second field aside).
C10_AsStated ==
    [][call'[1] = "charge_start"
       => /\ ~x109'.status.status_charger_stop_control
          /\ x109'.status.status_station
          /\ x109'.remaining_charging_time_1min_bit = 255
          /\ ChargeStartFrame]_vars

\* C10 (amended): after charge_start stop-control is clear, station-active is
\* set, the 10-second remaining-time field is 255 and the 1-minute field is
\* 60, and nothing else changed.
C10_ChargeStart ==
    [][call'[1] = "charge_start"
       => /\ ~x109'.status.status_charger_stop_control
          /\ x109'.status.status_station
          /\ x109'.remaining_charging_time_10s_bit = 255
          /\ x109'.remaining_charging_time_1min_bit = 60
          /\ ChargeStartFrame]_vars

C10_Witness ==
    /\ call[1] = "charge_start"
    /\ ~x109.status.status_charger_stop_control
    /\ x109.status.status_station
    /\ x109.remaining_charging_time_1min_bit = 60
    /\ x109.output_current # 0
    /\ x102.state_of_charge # 0

\* every field of the station record x109 other than its status byte
X109Scalars == DOMAIN x109 \ {"status"}

\* C11: after charge_stop the output voltage and current and both
\* remaining-time fields are 0 and the three station fault bits are clear,
\* whatever they were; stop-control, station-active, connector-lock, the other
\* x109 fields and every other record are unchanged.
C11_ChargeStop ==
    [][call'[1] = "charge_stop"
       => /\ x109'.output_voltage = 0
          /\ x109'.output_current = 0
          /\ x109'.remaining_charging_time_10s_bit = 0
          /\ x109'.remaining_charging_time_1min_bit = 0
          /\ ~x109'.status.fault_charging_system_malfunction
          /\ ~x109'.status.fault_battery_incompatibility
          /\ ~x109'.status.fault_station_malfunction
          /\ \A k \in {"status_charger_stop_control", "status_station",
                       "status_vehicle_connector_lock"} :
                x109'.status[k] = x109.status[k]
          /\ \A k \in {"control_protocol_number_qc", "discharge_compatitiblity"} :
                x109'[k] = x109[k]
          /\ UNCHANGED <<x100, x101, x102, x200, x108, x208, x209>>]_vars

\* the output voltage starts at 400 in SpecFields and only charge_stop writes it
C11_Witness ==
    /\ call[1] = "charge_stop"
    /\ x109.output_voltage = 0
    /\ x109.status.status_charger_stop_control
    /\ x109.status.status_station
    /\ x109.status.status_vehicle_connector_lock
    /\ x208.input_current = 1

\* C12: request_stop_charge leaves stop-control asserted and changes nothing
\* else: output current and voltage, remaining-time fields, the other five
\* status bits, the discharge limits and the vehicle records keep their values.
C12_RequestStopCharge ==
    [][call'[1] = "request_stop_charge"
       => /\ x109'.status.status_charger_stop_control
          /\ \A k \in DOMAIN x109.status \ {"status_charger_stop_control"} :
                x109'.status[k] = x109.status[k]
          /\ \A k \in X109Scalars : x109'[k] = x109[k]
          /\ UNCHANGED <<x100, x101, x102, x200, x108, x208, x209>>]_vars

C12_Witness ==
    /\ call[1] = "request_stop_charge"
    /\ x109.status.status_charger_stop_control
    /\ x109.output_current = 16
    /\ x109.output_voltage = 400
    /\ x109.status.fault_station_malfunction
    /\ x109.status.status_station

\* C13 (as stated): update_dynamic_charge_limits(amps) with amps >= 0 sets the
\* x109 output current to amps and leaves x208 alone; with amps < 0 it sets the
\* x208 input-current limit to |amps| and leaves x109 alone; nothing else
\* changes.  (-0.0 compares equal to 0, so it is an amps >= 0.)
C13_AsStated ==
    [][(call'[1] = "update_dynamic_charge_limits" /\ call'[2].mag <= 255)
       => LET amps == call'[2]
              non_negative == ~amps.neg \/ amps.mag = 0
          IN  /\ non_negative =>
                    /\ x109'.output_current = amps.mag
                    /\ \A k \in DOMAIN x109 \ {"output_current"} : x109'[k] = x109[k]
                    /\ x208' = x208
              /\ ~non_negative =>
                    /\ x208'.input_current = amps.mag
                    /\ \A k \in DOMAIN x208 \ {"input_current"} : x208'[k] = x208[k]
                    /\ x109' = x109
              /\ UNCHANGED <<x100, x101, x102, x200, x108, x209>>]_vars

\* C14: tx_frames returns four present entries, in the order 0x108, 0x109,
\* 0x208, 0x209, each with a standard id and an 8-byte payload; byte 3 of the
\* 0x109 payload is the output current and bit 5 of its byte 5 is the
\* stop-control flag; byte 3 of the 0x208 payload is 255 - input_current; the
\* call changes no record.
C14_TxFrames ==
    [][call'[1] = "tx_frames"
       => /\ UNCHANGED records
          /\ ret'[1] = "frames" /\ Len(ret') = 5
          /\ \A i \in 2..5 : /\ ret'[i][1] = "Some"
                             /\ ~ret'[i][2].id.ext
                             /\ Len(ret'[i][2].data) = 8
                             /\ \A j \in 1..8 : ret'[i][2].data[j] \in 0..255
          /\ <<ret'[2][2].id.raw, ret'[3][2].id.raw, ret'[4][2].id.raw, ret'[5][2].id.raw>>
                = <<264, 265, 520, 521>>
          /\ Byte(ret'[3][2].data, 3) = x109.output_current
          /\ BitOf(Byte(ret'[3][2].data, 5), 5) = x109.status.status_charger_stop_control
          /\ Byte(ret'[4][2].data, 3) = 255 - x208.input_current]_vars

C14_Witness ==
    /\ call[1] = "tx_frames"
    /\ ret[1] = "frames"
    /\ x109.output_current = 16
    /\ ~x109.status.status_charger_stop_control
    /\ x109.status.status_station
    /\ x208.input_current = 0
    /\ Byte(ret[4][2].data, 3) = 255
    /\ Byte(ret[3][2].data, 3) = 16

\* C15: for every X208 record with currents in 0..255 and voltages in
\* 0..65535, to_can gives a frame with standard id 0x208 whose byte 0 is
\* 255 - discharge_current and byte 3 is 255 - input_current, both within
\* 0..255; From on that frame gives back all four original values.
C15_X208RoundTrip ==
    [][/\ call'[1] = "X208::to_can"
          => /\ ret'[1] = "Some"
             /\ ret'[2].id = [ext |-> FALSE, raw |-> 520]
             /\ Len(ret'[2].data) = 8
             /\ Byte(ret'[2].data, 0) = 255 - x208.discharge_current
             /\ Byte(ret'[2].data, 3) = 255 - x208.input_current
             /\ \A j \in 1..8 : ret'[2].data[j] \in 0..255
       /\ call'[1] = "X208::from"
          => /\ call'[2] = X208_to_can(x208)[2]
             /\ ret' = <<"X208", x208>>]_vars

C15_Witness ==
    /\ call[1] = "X208::from"
    /\ ret = <<"X208", x208>>
    /\ Byte(call[2].data, 0) = 254
    /\ Byte(call[2].data, 3) = 0
    /\ x208.discharge_current = 1
    /\ x208.input_current = 255

\* C16: for X102Status (defined bits 7,4,3,2,1,0) and X109Status (defined
\* bits 5..0): turning a byte into flags and the flags back into a byte
\* gives the byte with its undefined bits cleared, hence the byte itself
\* when only defined bits are set; turning any flags into a byte and that
\* byte back into flags gives the same flags.
C16_StatusRoundTrip ==
    [][/\ (call[1] = "X102Status::from" /\ call'[1] = "u8::from(X102Status)")
          => /\ ret'[2] = ((call[2] \div 128) * 128) + (call[2] % 32)
             /\ (\A n \in {5, 6} : ~BitOf(call[2], n)) => ret'[2] = call[2]
       /\ (call[1] = "X109Status::from" /\ call'[1] = "u8::from(X109Status)")
          => /\ ret'[2] = call[2] % 64
             /\ (\A n \in {6, 7} : ~BitOf(call[2], n)) => ret'[2] = call[2]
       /\ (call[1] = "u8::from(X102Status)" /\ call'[1] = "X102Status::from"
           /\ call'[2] = ret[2])
          => ret'[2] = call[2]
       /\ (call[1] = "u8::from(X109Status)" /\ call'[1] = "X109Status::from"
           /\ call'[2] = ret[2])
          => ret'[2] = call[2]]_vars

C16_Witness ==
    /\ call[1] = "u8::from(X109Status)"
    /\ call[2] = X109Status_from_u8(36)
    /\ call[2].status_charger_stop_control
    /\ call[2].status_vehicle_connector_lock
    /\ ~call[2].status_station
    /\ ret = <<"u8", 36>>

\* C17: after a 0x102 frame is decoded, contactors_closed is true exactly
\* when bit 3 of the frame's byte 5 is 0, whatever the other bits and bytes
\* are; status byte 0xC1 gives true and 0xC8 gives false.
C17_ContactorsClosed ==
    DecodedX102 =>
        LET b == call[2].data[6] IN
        /\ contactors_closed(x102) <=> ~BitOf(b, 3)
        /\ b = 193 => contactors_closed(x102)
        /\ b = 200 => ~contactors_closed(x102)

C17_Witness ==
    /\ DecodedX102
    /\ call[2].data[6] = 200
    /\ call[2].data[2] + 256 * call[2].data[3] = 410
    /\ ~contactors_closed(x102)

\* C18: a decoded 0x102 frame with a non-zero target voltage whose status
\* byte has bits 0 and 3 set and bits 4, 2, 1 clear (0xC9 for one) gives
\* can_close_contactors; and in every state can_close_contactors implies
\* that contactors_closed is false.
C18_CanCloseImpliesOpen ==
    /\ (/\ DecodedX102
        /\ call[2].data[2] + 256 * call[2].data[3] # 0
        /\ BitOf(call[2].data[6], 0) /\ BitOf(call[2].data[6], 3)
        /\ \A n \in {4, 2, 1} : ~BitOf(call[2].data[6], n))
       => can_close_contactors(x102)
    /\ can_close_contactors(x102) => ~contactors_closed(x102)

C18_Witness ==
    /\ DecodedX102
    /\ call[2].data[6] = 201
    /\ call[2].data[2] + 256 * call[2].data[3] = 256
    /\ can_close_contactors(x102)
    /\ ~contactors_closed(x102)

\* C19 (as stated): the station-active flag is 0 after Chademo::new, 1 after
\* charge_start, and 0 again once request_stop_charge and charge_stop have
\* been called.  Checked in the reading that asks least: the flag is only
\* required to be 0 when the two stop calls have both just been made.
C19_AsStated ==
    [][/\ call[1] = "new" => ~x109.status.status_station
       /\ call'[1] = "charge_start" => x109'.status.status_station
       /\ (\/ call[1] = "request_stop_charge" /\ call'[1] = "charge_stop"
           \/ call[1] = "charge_stop" /\ call'[1] = "request_stop_charge")
          => ~x109'.status.status_station]_vars

\* C20: while stop-control is asserted, every call other than charge_start
\* and charging_stop_control_set (decode that succeeds or fails, charge_stop,
\* plug_lock, update_dynamic_charge_limits, request_stop_charge, tx_frames,
\* ...) leaves it asserted, and a 0x109 frame emitted by tx_frames has bit 5
\* of byte 5 set.
C20_StopControlSticky ==
    [][(/\ x109.status.status_charger_stop_control
        /\ call'[1] \notin {"charge_start", "charging_stop_control_set"})
       => /\ x109'.status.status_charger_stop_control
          /\ call'[1] = "tx_frames"
             => BitOf(Byte(ret'[3][2].data, 5), 5)]_vars

C20_Witness ==
    /\ call[1] = "tx_frames"
    /\ ret[3][2].id.raw = 265
    /\ BitOf(Byte(ret[3][2].data, 5), 5)
    /\ x109.status.status_charger_stop_control
    /\ x109.status.status_station
    /\ ~x109.status.status_vehicle_connector_lock
    /\ x109.output_current = 0
    /\ x102.target_battery_voltage > 0

\* C21 (as stated): in every state reached from Chademo::new(max_amps) by
\* decode and mutator calls, the x109 output current (byte 3 of the emitted
\* 0x109 frame) does not exceed the x108 available output current (byte 3 of
\* the emitted 0x108 frame), and the x208 input-current limit does not exceed
\* that ceiling either.
C21_AsStated ==
    /\ x109.output_current <= x108.available_output_current
    /\ x208.input_current <= x108.available_output_current
    /\ call[1] = "tx_frames"
       => Byte(ret[3][2].data, 3) <= Byte(ret[2][2].data, 3)

====
